---- MODULE Spec2Model ----
(***************************************************************************)
(* A model of two parts of edx-platform:                                   *)
(*                                                                         *)
(*  - the store builders of test_cross_modulestore_import_export.py        *)
(*    (context managers that create a Mongo-backed content store or        *)
(*    module store under a randomly named database and drop it on exit);   *)
(*  - the course structure snapshot of course_structures/models.py         *)
(*    (generate_course_structure and the update_course_structure task      *)
(*    scheduled on every course_published signal).                         *)
(*                                                                         *)
(* These specifications share the module: Spec (the store builders, any   *)
(* nesting of them), TripSpec (the builders as test_round_trip and a       *)
(* `with builder.build(...)` statement use them), SnapSpec (the snapshot   *)
(* tasks) and WalkSpec (the block walk of generate_course_structure, one   *)
(* loop iteration per step; WalkFairSpec adds that the function is run     *)
(* on).                                                                    *)
(***************************************************************************)
EXTENDS Integers, Sequences, FiniteSets, TLC

VARIABLES
    \* ---- store builders ----
    scopes,      \* stack of the builder scopes entered and not yet left
    exc,         \* TRUE while an exception is propagating
    dbs,         \* names of the databases that exist on the Mongo server
    docs,        \* documents held by the Mongo server
    tmpdirs,     \* temp directories that exist on the filesystem
    done,        \* what each scope that was left did, for the properties
    nextId,      \* number of the next builder scope
    \* ---- a test that uses the builders ----
    prog,        \* the test that runs
    plan,        \* what the test has still to do, in order
    ran,         \* the pipeline steps run so far, and how each ended
    mixed_modulestore, \* the attribute of each MixedModulestoreBuilder
    asset,       \* what asset_collection() returned, when it was called
    \* ---- snapshot tasks ----
    course_tree, \* the published tree of each course in the modulestore
    rows,        \* the CourseStructure table
    nextPk,      \* next primary key of the table
    tasks,       \* the update_course_structure tasks, in order of .delay()
    log,         \* what logger.error was called with
    \* ---- generate_course_structure, step by step ----
    wtree,       \* the course being walked
    blocks_stack,
    blocks_dict,
    visits,      \* how often each block was popped
    wresult,     \* the dictionary returned, in a sequence; <<>> before the return
    wfirst,      \* the dictionaries earlier calls returned
    wpc          \* "loop" | "returned" | "idle"

storeVars == <<scopes, exc, dbs, docs, tmpdirs, done, nextId>>
snapVars  == <<course_tree, rows, nextPk, tasks, log>>
walkVars  == <<wtree, blocks_stack, blocks_dict, visits, wresult, wfirst, wpc>>
tripVars  == <<prog, plan, ran, mixed_modulestore, asset>>
vars      == <<storeVars, tripVars, snapVars, walkVars>>

(***************************************************************************)
(* Bounds of the model.                                                    *)
(***************************************************************************)
\* random.randint(0, 10000) is drawn from 0..RandMax
RandMax == 1
\* builder scopes entered in one behaviour
MaxScopes == 3
\* blocks of a course tree walked by WalkSpec
MaxBlocks == 4
\* courses, and update_course_structure tasks scheduled in one behaviour
MaxCourses == 2
MaxTasks == 2
\* pops of one block after which the walk is cut off
MaxVisits == 2

None == "None"

(***************************************************************************)
(* STORE BUILDERS                                                          *)
(***************************************************************************)
Kinds == {"content", "mongo", "split"}

\* XmlModulestoreBuilder and MixedModulestoreBuilder: no database of their own
NoDb == <<>>

\* DATA_DIR, the directory of the XML courses, among the directories
DATA_DIR == -1

\* db='contentstore{}'.format(...) / db='modulestore{}'.format(...)
DbName(kind, n) ==
    IF kind = "content" THEN <<"contentstore", n>> ELSE <<"modulestore", n>>

\* collection='content' / 'xmodule' / 'split_module'
Collection(kind) ==
    CASE kind = "content" -> "content"
      [] kind = "mongo"   -> "xmodule"
      [] kind = "split"   -> "split_module"

\* The first statement of a builder after its configuration is made:
\* the content store is constructed at once, a module store's temp
\* directory comes first.
FirstPc(kind) == IF kind = "content" THEN "construct" ELSE "mkdtemp"

\* What a store reads: the documents of its collection in its database.
Visible(allDocs, s) ==
    {d \in allDocs : d.db = s.db /\ d.coll = Collection(s.kind)}

Top == scopes[Len(scopes)]

SetTop(f) == [scopes EXCEPT ![Len(scopes)] = f]

BodyRuns ==
    /\ exc = FALSE
    /\ IF scopes = <<>> THEN TRUE ELSE Top.pc = "yielded"

Summary(s) ==
    [id |-> s.id, kind |-> s.kind, fs |-> s.fs,
     yielded |-> s.yielded, raised |-> s.raised,
     dropped |-> s.dropped, rmtreed |-> s.rmtreed]

\* no test of TripSpec runs
TripIdle ==
    /\ prog = None
    /\ plan = <<>>
    /\ ran = <<>>
    /\ mixed_modulestore = <<>>
    /\ asset = <<>>

StoresIdle ==
    /\ scopes = <<>>
    /\ exc = FALSE
    /\ dbs = {}
    /\ docs = {}
    /\ tmpdirs = {}
    /\ done = {}
    /\ nextId = 1

\* `with builder.build...(...)`: the generator starts; the database name
\* is drawn.  A module store builder is handed a live content store.
Build(kind, n) ==
    /\ UNCHANGED <<tripVars, snapVars, walkVars>>
    /\ BodyRuns
    /\ nextId <= MaxScopes
    /\ \E cs \in IF kind = "content" THEN {0}
                 ELSE {scopes[i].id : i \in {j \in DOMAIN scopes :
                                              scopes[j].kind = "content"}} :
         scopes' = Append(scopes,
            [id |-> nextId, kind |-> kind, db |-> DbName(kind, n), cs |-> cs,
             fs |-> 0, pc |-> FirstPc(kind), yielded |-> FALSE,
             raised |-> FALSE, dropped |-> FALSE, rmtreed |-> FALSE,
             initial |-> {}])
    /\ nextId' = nextId + 1
    /\ UNCHANGED <<exc, dbs, docs, tmpdirs, done>>

\* fs_root = mkdtemp(): a directory no one else has
Mkdtemp ==
    /\ UNCHANGED <<tripVars, snapVars, walkVars>>
    /\ scopes # <<>> /\ Top.pc = "mkdtemp"
    /\ scopes' = SetTop([Top EXCEPT !.fs = Top.id, !.pc = "construct"])
    /\ tmpdirs' = tmpdirs \cup {Top.id}
    /\ UNCHANGED <<exc, dbs, docs, done, nextId>>

\* An exception raised before the builder's try block: the generator dies,
\* the with statement is never entered and nothing of the builder runs again.
SetupRaises ==
    /\ scopes' = SubSeq(scopes, 1, Len(scopes) - 1)
    /\ done' = done \cup {Summary(Top)}
    /\ exc' = TRUE

\* MongoContentStore(...) / DraftModuleStore(...) / DraftVersioningModuleStore(...)
Construct(ok) ==
    /\ UNCHANGED <<tripVars, snapVars, walkVars>>
    /\ scopes # <<>> /\ Top.pc = "construct"
    /\ IF ok
       THEN /\ scopes' = SetTop([Top EXCEPT !.pc = "ensure_indexes"])
            /\ UNCHANGED <<exc, done>>
       ELSE SetupRaises
    /\ UNCHANGED <<dbs, docs, tmpdirs, nextId>>

\* store.ensure_indexes(), then the yield.  Creating the indexes creates
\* the database; a call that raises is taken to have created nothing.
EnsureIndexes(ok) ==
    /\ UNCHANGED <<tripVars, snapVars, walkVars>>
    /\ scopes # <<>> /\ Top.pc = "ensure_indexes"
    /\ IF ok
       THEN /\ scopes' = SetTop([Top EXCEPT !.pc = "yielded", !.yielded = TRUE,
                                            !.initial = Visible(docs, Top)])
            /\ dbs' = dbs \cup {Top.db}
            /\ UNCHANGED <<exc, done>>
       ELSE /\ SetupRaises
            /\ UNCHANGED dbs
    /\ UNCHANGED <<docs, tmpdirs, nextId>>

\* try: yield ... finally: the statement run next when the body is over,
\* normally or by an exception thrown in at the yield.
ExitPcNoFinally(raised) == IF raised THEN "exit" ELSE "drop"

ExitPc(raised) == "drop"

\* as if every builder ended with the teardown of the Mongo builders
AfterYieldTearsDown(kind, raised) == ExitPc(raised)

\* What follows a builder's yield: the finally block of the Mongo builders;
\* nothing in XmlModulestoreBuilder (`yield modulestore` is its last
\* statement) and, in MixedModulestoreBuilder, the end of its with block.
AfterYield(kind, raised) == IF kind \in Kinds THEN ExitPc(raised) ELSE "exit"

\* The body writes a course or an asset through one of the stores it holds.
Write(i) ==
    /\ UNCHANGED <<tripVars, snapVars, walkVars>>
    /\ BodyRuns
    /\ i \in DOMAIN scopes
    /\ LET d == [db |-> scopes[i].db, coll |-> Collection(scopes[i].kind),
                 by |-> scopes[i].id]
       IN  /\ d \notin docs
           /\ docs' = docs \cup {d}
           /\ dbs' = dbs \cup {scopes[i].db}
    /\ UNCHANGED <<scopes, exc, tmpdirs, done, nextId>>

\* The body of the innermost with statement ends.
BodyFinishes ==
    /\ UNCHANGED <<tripVars, snapVars, walkVars>>
    /\ BodyRuns /\ scopes # <<>>
    /\ scopes' = SetTop([Top EXCEPT !.pc = AfterYield(Top.kind, FALSE)])
    /\ UNCHANGED <<exc, dbs, docs, tmpdirs, done, nextId>>

\* The body raises, or an exception leaving an inner with statement reaches
\* the body of the next one.
BodyRaises ==
    /\ UNCHANGED <<tripVars, snapVars, walkVars>>
    /\ scopes # <<>> /\ Top.pc = "yielded"
    /\ scopes' = SetTop([Top EXCEPT !.pc = AfterYield(Top.kind, TRUE),
                                      !.raised = TRUE])
    /\ exc' = TRUE
    /\ UNCHANGED <<dbs, docs, tmpdirs, done, nextId>>

\* store._drop_database(): the whole database goes, every collection of it
DropDatabase ==
    /\ UNCHANGED <<tripVars, snapVars, walkVars>>
    /\ scopes # <<>> /\ Top.pc = "drop"
    /\ dbs' = dbs \ {Top.db}
    /\ docs' = {d \in docs : d.db # Top.db}
    /\ scopes' = SetTop([Top EXCEPT !.dropped = TRUE,
                           !.pc = IF Top.kind = "content" THEN "exit" ELSE "rmtree"])
    /\ UNCHANGED <<exc, tmpdirs, done, nextId>>

\* rmtree(fs_root, ignore_errors=True)
Rmtree ==
    /\ UNCHANGED <<tripVars, snapVars, walkVars>>
    /\ scopes # <<>> /\ Top.pc = "rmtree"
    /\ tmpdirs' = tmpdirs \ {Top.fs}
    /\ scopes' = SetTop([Top EXCEPT !.rmtreed = TRUE, !.pc = "exit"])
    /\ UNCHANGED <<exc, dbs, docs, done, nextId>>

\* The with statement is left; a propagating exception goes on outwards.
LeaveScope ==
    /\ UNCHANGED <<tripVars, snapVars, walkVars>>
    /\ scopes # <<>> /\ Top.pc = "exit"
    /\ scopes' = SubSeq(scopes, 1, Len(scopes) - 1)
    /\ done' = done \cup {Summary(Top)}
    /\ UNCHANGED <<exc, dbs, docs, tmpdirs, nextId>>

\* The exception leaves the outermost with statement: the test is over and
\* the next one starts.
TestEnds ==
    /\ UNCHANGED <<tripVars, snapVars, walkVars>>
    /\ scopes = <<>> /\ exc = TRUE
    /\ exc' = FALSE
    /\ UNCHANGED <<scopes, dbs, docs, tmpdirs, done, nextId>>

(***************************************************************************)
(* THE BUILDERS IN USE: test_round_trip and `with builder.build(...)`      *)
(***************************************************************************)
\* The module store builders: the three direct classes and the three
\* MixedModulestoreBuilder instances of the module.
DirectBuilders == {"mongo", "split", "xml"}
MixedBuilders == {"mixed_both", "mixed_draft", "mixed_split"}
Builders == DirectBuilders \cup MixedBuilders

\* self.store_builders: the (name, builder) pairs of each Mixed instance
StoreBuilders(b) ==
    CASE b = "mixed_both"  -> << <<"draft", "mongo">>, <<"split", "split">> >>
      [] b = "mixed_draft" -> << <<"draft", "mongo">> >>
      [] b = "mixed_split" -> << <<"split", "split">> >>

\* MODULESTORE_SETUPS = DIRECT_MODULESTORE_SETUPS + MIXED_MODULESTORE_SETUPS
MODULESTORE_SETUPS == {"mongo", "mixed_draft", "mixed_split"}

\* What a test has to do is a sequence of instructions: enter the context
\* manager of a builder, construct the MixedModuleStore, run a pipeline step.

\* MongoContentstoreBuilder().build()
ContentstoreBuild == <<[op |-> "enter", arg |-> "content"]>>

\* as if nested() were handed the backends' context managers last first
BuildWithContentstoreReversed(b) ==
    IF b \in MixedBuilders
    THEN [i \in 1..Len(StoreBuilders(b)) |->
              [op |-> "enter",
               arg |-> StoreBuilders(b)[Len(StoreBuilders(b)) + 1 - i][2]]]
         \o <<[op |-> "mixed", arg |-> b]>>
    ELSE <<[op |-> "enter", arg |-> b]>>

\* builder.build_with_contentstore(contentstore): of a Mixed builder, its
\* backends' build_with_contentstore entered in the order of store_builders
\* by nested(), then the MixedModuleStore constructed over them
BuildWithContentstore(b) ==
    IF b \in MixedBuilders
    THEN [i \in 1..Len(StoreBuilders(b)) |->
              [op |-> "enter", arg |-> StoreBuilders(b)[i][2]]]
         \o <<[op |-> "mixed", arg |-> b]>>
    ELSE <<[op |-> "enter", arg |-> b]>>

\* as if build made a content store of its own whatever it was given
BuildIgnoresContentstore(b, contentstore) ==
    ContentstoreBuild \o BuildWithContentstore(b)

\* StoreBuilderBase.build(contentstore=...); contentstore tells whether a
\* content store was supplied
StoreBuilderBase_build(b, contentstore) ==
    IF ~contentstore
    THEN ContentstoreBuild \o BuildWithContentstore(b)
    ELSE BuildWithContentstore(b)

\* the body of the four with statements of test_round_trip
Pipeline ==
    <<"import_from_xml source", "export_to_xml", "import_from_xml dest",
      "assertCoursesEqual", "assertAssetsEqual", "assertAssetsMetadataEqual">>

test_round_trip(source_builder, dest_builder) ==
    ContentstoreBuild \o StoreBuilderBase_build(source_builder, TRUE)
    \o ContentstoreBuild \o StoreBuilderBase_build(dest_builder, TRUE)
    \o [i \in 1..Len(Pipeline) |-> [op |-> "step", arg |-> Pipeline[i]]]

\* `with builder.build() as (contentstore, modulestore): body`, or
\* `with MongoContentstoreBuilder().build() as contentstore:
\*      with builder.build(contentstore=contentstore) as modulestore: body`
WithBuild(b, contentstore) ==
    (IF contentstore THEN ContentstoreBuild ELSE <<>>)
    \o StoreBuilderBase_build(b, contentstore)
    \o <<[op |-> "step", arg |-> "body"]>>

\* The tests: test_round_trip for every pair of MODULESTORE_SETUPS, and a
\* with statement over build of every builder, with and without a content
\* store supplied.
Programs ==
    [test : {"test_round_trip"}, source_builder : MODULESTORE_SETUPS,
     dest_builder : MODULESTORE_SETUPS, contentstore : {TRUE}]
    \cup
    [test : {"build"}, source_builder : Builders,
     dest_builder : {None}, contentstore : BOOLEAN]

PlanOf(p) ==
    IF p.test = "test_round_trip"
    THEN test_round_trip(p.source_builder, p.dest_builder)
    ELSE WithBuild(p.source_builder, p.contentstore)

\* the content stores live, outermost first
ContentScopes == SelectSeq(scopes, LAMBDA s : s.kind = "content")

\* the position on the stack of the k-th content store
RECURSIVE ContentAt(_, _)
ContentAt(k, from) ==
    IF scopes[from].kind = "content"
    THEN IF k = 1 THEN from ELSE ContentAt(k - 1, from + 1)
    ELSE ContentAt(k, from + 1)

\* `with builder...build...(...)`: the generator of the next builder of the
\* plan starts.  A module store builder is handed the content store built
\* last; XmlModulestoreBuilder reads DATA_DIR.
TripEnter(n) ==
    /\ UNCHANGED <<snapVars, walkVars>>
    /\ BodyRuns
    /\ plan # <<>> /\ Head(plan).op = "enter"
    /\ LET kind == Head(plan).arg
           cs == IF kind = "content" \/ ContentScopes = <<>> THEN 0
                 ELSE ContentScopes[Len(ContentScopes)].id
       IN  scopes' = Append(scopes,
              [id |-> nextId, kind |-> kind,
               db |-> IF kind \in Kinds THEN DbName(kind, n) ELSE NoDb,
               cs |-> cs,
               fs |-> IF kind = "xml" THEN DATA_DIR ELSE 0,
               pc |-> IF kind = "xml" THEN "xml_construct" ELSE FirstPc(kind),
               yielded |-> FALSE, raised |-> FALSE, dropped |-> FALSE,
               rmtreed |-> FALSE, initial |-> {}])
    /\ nextId' = nextId + 1
    /\ plan' = Tail(plan)
    /\ UNCHANGED <<exc, dbs, docs, tmpdirs, done, prog, ran,
                   mixed_modulestore, asset>>

\* The directories on the disk once XMLModuleStore has loaded the courses
\* of its data directory: the store is read-only and only reads them.
XMLModuleStoreLoad(dirs) == dirs

\* modulestore = XMLModuleStore(DATA_DIR, ...); yield modulestore
XmlConstruct(ok) ==
    /\ UNCHANGED <<tripVars, snapVars, walkVars>>
    /\ scopes # <<>> /\ Top.pc = "xml_construct"
    /\ IF ok
       THEN /\ scopes' = SetTop([Top EXCEPT !.pc = "yielded", !.yielded = TRUE])
            /\ UNCHANGED <<exc, done>>
       ELSE SetupRaises
    /\ tmpdirs' = XMLModuleStoreLoad(tmpdirs)
    /\ UNCHANGED <<dbs, docs, nextId>>

\* the backends nested() has entered for builder b, with their names
Modulestores(b) ==
    LET k == Len(StoreBuilders(b))
    IN  [i \in 1..k |->
            [name |-> StoreBuilders(b)[i][1],
             kind |-> scopes[Len(scopes) - k + i].kind,
             db   |-> scopes[Len(scopes) - k + i].db,
             id   |-> scopes[Len(scopes) - k + i].id]]

\* self.mixed_modulestore = MixedModuleStore(...); yield self.mixed_modulestore
\* A constructor that raises does so inside `with nested(...)`.
MixedCtor(ok) ==
    /\ UNCHANGED <<snapVars, walkVars>>
    /\ BodyRuns
    /\ plan # <<>> /\ Head(plan).op = "mixed"
    /\ LET b == Head(plan).arg
       IN  IF ok
           THEN /\ mixed_modulestore' =
                      [mixed_modulestore EXCEPT ![b] = Modulestores(b)]
                /\ scopes' = Append(scopes,
                      [id |-> nextId, kind |-> "mixed", db |-> NoDb,
                       cs |-> ContentScopes[Len(ContentScopes)].id, fs |-> 0,
                       pc |-> "yielded", yielded |-> TRUE, raised |-> FALSE,
                       dropped |-> FALSE, rmtreed |-> FALSE, initial |-> {}])
                /\ nextId' = nextId + 1
                /\ plan' = Tail(plan)
                /\ UNCHANGED exc
           ELSE /\ exc' = TRUE
                /\ UNCHANGED <<scopes, nextId, plan, mixed_modulestore>>
    /\ UNCHANGED <<dbs, docs, tmpdirs, done, prog, ran, asset>>

\* None, where a collection is expected
NoCollection == <<>>

\* as if the store count were not looked at
AssetCollectionOfFirst(all_stores) ==
    LET store == all_stores[1]
    IN  IF store.kind = "mongo"
        THEN <<store.db, "asset_metadata">>
        ELSE <<store.db, "structures">>

\* MixedModulestoreBuilder.asset_collection; a DraftModuleStore has the
\* attribute asset_collection (its doc_store_config names 'asset_metadata')
AssetCollection(all_stores) ==
    IF Len(all_stores) > 1
    THEN NoCollection
    ELSE LET store == all_stores[1]
         IN  IF store.kind = "mongo"
             THEN <<store.db, "asset_metadata">>
             ELSE <<store.db, "structures">>

\* builder.asset_collection() is called on a Mixed builder that has built
AssetCollectionCall(b) ==
    /\ UNCHANGED <<storeVars, snapVars, walkVars>>
    /\ BodyRuns
    /\ asset = <<>>
    /\ mixed_modulestore[b] # <<>>
    /\ asset' = <<[builder |-> b, all_stores |-> mixed_modulestore[b],
                   value |-> AssetCollection(mixed_modulestore[b])]>>
    /\ UNCHANGED <<prog, plan, ran, mixed_modulestore>>

\* as if a failed step returned instead of raising
StepFailureSwallowed(ok) == FALSE

\* A pipeline step that fails raises: import_from_xml is called with
\* raise_on_failure=True, export_to_xml and the assertions raise by themselves.
StepRaises(ok) == ~ok

\* the documents a pipeline step writes: an import fills the store it is
\* given (a Mixed store writes to its first backend) and its content store
StepWrites(name) ==
    LET k == IF name = "import_from_xml source" THEN 1
             ELSE IF name = "import_from_xml dest" THEN 2 ELSE 0
    IN  IF k = 0 THEN {}
        ELSE LET c == ContentAt(k, 1)
             IN  {[db |-> scopes[i].db, coll |-> Collection(scopes[i].kind),
                   by |-> scopes[i].id] : i \in {c, c + 1}}

\* The next step of the pipeline runs.  A step that fails may have written
\* before it failed.
Step(ok, wrote) ==
    /\ UNCHANGED <<snapVars, walkVars>>
    /\ BodyRuns
    /\ plan # <<>> /\ Head(plan).op = "step"
    /\ ok => wrote
    /\ ran' = Append(ran, [name |-> Head(plan).arg, ok |-> ok])
    /\ LET w == IF wrote THEN StepWrites(Head(plan).arg) ELSE {}
       IN  /\ docs' = docs \cup w
           /\ dbs' = dbs \cup {d.db : d \in w}
    /\ IF StepRaises(ok)
       THEN exc' = TRUE /\ plan' = plan
       ELSE exc' = exc /\ plan' = Tail(plan)
    /\ UNCHANGED <<scopes, tmpdirs, done, nextId, prog, mixed_modulestore, asset>>

\* The body of the innermost with statement has nothing left to do.
TripBodyFinishes == plan = <<>> /\ BodyFinishes

\* An exception reaches the yield of the innermost builder.
Propagate == exc = TRUE /\ BodyRaises

(***************************************************************************)
(* COURSE TREES AND generate_course_structure                              *)
(***************************************************************************)
\* A course tree: its root block, each block's children in authoring
\* order, and each block's has_children.
MkTree(root, children, has_children) ==
    [root |-> root, children |-> children, has_children |-> has_children]

BlocksOf(tree) == DOMAIN tree.children

\* unicode(block.scope_ids.usage_id): the serialized usage key, one string
\* per block of a course
Unicode(b) == <<"usage_key", b>>

\* block.get_children()
GetChildren(tree, b) == tree.children[b]

\* block.category, display_name, graded, format: attributes of the block
Category(tree, b) ==
    IF b = tree.root THEN "course"
    ELSE IF tree.has_children[b] THEN "vertical" ELSE "problem"

DisplayName(b) == <<"display_name", b>>

EmptyDict == [k \in {} |-> None]

DictSet(dict, key, value) ==
    [k \in DOMAIN dict \cup {key} |-> IF k = key THEN value ELSE dict[k]]

MapSeq(s) == [i \in DOMAIN s |-> Unicode(s[i])]

\* One iteration of `while blocks_stack:`: pop the last block, record its
\* entry, push its children.  The course itself (tree) is left as it was.
LoopBodyReversed(tree, stack, dict) ==
    LET curr == stack[Len(stack)]
        children == IF tree.has_children[curr] THEN GetChildren(tree, curr) ELSE <<>>
        rev == [i \in DOMAIN children |-> children[Len(children) + 1 - i]]
    IN  [curr  |-> curr,
         tree  |-> tree,
         stack |-> SubSeq(stack, 1, Len(stack) - 1) \o children,
         dict  |-> DictSet(dict, Unicode(curr),
                     [usage_key    |-> Unicode(curr),
                      block_type   |-> Category(tree, curr),
                      display_name |-> DisplayName(curr),
                      graded       |-> FALSE,
                      format       |-> None,
                      children     |-> MapSeq(rev)])]

\* as if the children were moved to the stack out of the block's own list
LoopBodyDrainsChildren(tree, stack, dict) ==
    LET curr == stack[Len(stack)]
        children == IF tree.has_children[curr] THEN GetChildren(tree, curr) ELSE <<>>
    IN  [curr  |-> curr,
         tree  |-> [tree EXCEPT !.children[curr] = <<>>],
         stack |-> SubSeq(stack, 1, Len(stack) - 1) \o children,
         dict  |-> DictSet(dict, Unicode(curr),
                     [usage_key    |-> Unicode(curr),
                      block_type   |-> Category(tree, curr),
                      display_name |-> DisplayName(curr),
                      graded       |-> FALSE,
                      format       |-> None,
                      children     |-> MapSeq(children)])]

\* as if the entry listed the stack after the extend, not the children
LoopBodyListsStack(tree, stack, dict) ==
    LET curr == stack[Len(stack)]
        children == IF tree.has_children[curr] THEN GetChildren(tree, curr) ELSE <<>>
    IN  [curr  |-> curr,
         tree  |-> tree,
         stack |-> SubSeq(stack, 1, Len(stack) - 1) \o children,
         dict  |-> DictSet(dict, Unicode(curr),
                     [usage_key    |-> Unicode(curr),
                      block_type   |-> Category(tree, curr),
                      display_name |-> DisplayName(curr),
                      graded       |-> FALSE,
                      format       |-> None,
                      children     |-> MapSeq(SubSeq(stack, 1, Len(stack) - 1)
                                                 \o children)])]

\* as if the block were read from the end of the stack and left on it
LoopBodyNoPop(tree, stack, dict) ==
    LET curr == stack[Len(stack)]
        children == IF tree.has_children[curr] THEN GetChildren(tree, curr) ELSE <<>>
    IN  [curr  |-> curr,
         tree  |-> tree,
         stack |-> stack,
         dict  |-> DictSet(dict, Unicode(curr),
                     [usage_key    |-> Unicode(curr),
                      block_type   |-> Category(tree, curr),
                      display_name |-> DisplayName(curr),
                      graded       |-> FALSE,
                      format       |-> None,
                      children     |-> MapSeq(children)])]

LoopBody(tree, stack, dict) ==
    LET curr == stack[Len(stack)]
        children == IF tree.has_children[curr] THEN GetChildren(tree, curr) ELSE <<>>
    IN  [curr  |-> curr,
         tree  |-> tree,
         stack |-> SubSeq(stack, 1, Len(stack) - 1) \o children,
         dict  |-> DictSet(dict, Unicode(curr),
                     [usage_key    |-> Unicode(curr),
                      block_type   |-> Category(tree, curr),
                      display_name |-> DisplayName(curr),
                      graded       |-> FALSE,
                      format       |-> None,
                      children     |-> MapSeq(children)])]

RECURSIVE WhileBlocksStack(_, _, _)
WhileBlocksStack(tree, stack, dict) ==
    IF stack = <<>> THEN dict
    ELSE LET r == LoopBody(tree, stack, dict)
         IN  WhileBlocksStack(r.tree, r.stack, r.dict)

\* return {"root": ..., "blocks": blocks_dict}
ReturnValue(tree, dict) == [root |-> Unicode(tree.root), blocks |-> dict]

\* generate_course_structure, run to its return
GenerateCourseStructure(tree) ==
    ReturnValue(tree, WhileBlocksStack(tree, <<tree.root>>, EmptyDict))

\* ---- the trees WalkSpec starts from: every ordered tree on 1..n ----
\* Every ordered forest on the blocks S: the sequence of its roots and the
\* children of each block.
RECURSIVE Forests(_)
Forests(S) ==
    IF S = {} THEN {[roots |-> <<>>, children |-> EmptyDict]}
    ELSE UNION {
           UNION {
             {[roots |-> <<r>> \o rest.roots,
               children |-> (r :> under.roots) @@ under.children @@ rest.children]
                : under \in Forests(D), rest \in Forests(S \ (D \cup {r}))}
             : D \in SUBSET (S \ {r})}
           : r \in S}

\* has_children of each block: a block with children has it set
HasChildrenChoices(children) ==
    {hc \in [DOMAIN children -> BOOLEAN] :
        \A b \in DOMAIN children : children[b] # <<>> => hc[b]}

WalkIdle ==
    /\ wtree = None
    /\ blocks_stack = <<>>
    /\ blocks_dict = EmptyDict
    /\ visits = EmptyDict
    /\ wresult = <<>>
    /\ wfirst = {}
    /\ wpc = "idle"

\* course = modulestore().get_course(course_key, depth=None)
\* blocks_stack = [course]; blocks_dict = {}
WalkInit ==
    /\ scopes = <<>> /\ exc = FALSE /\ dbs = {} /\ docs = {}
    /\ tmpdirs = {} /\ done = {} /\ nextId = 1
    /\ prog = None /\ plan = <<>> /\ ran = <<>>
    /\ mixed_modulestore = <<>> /\ asset = <<>>
    /\ course_tree = None /\ rows = {} /\ nextPk = 1 /\ tasks = <<>> /\ log = {}
    /\ \E n \in 1..MaxBlocks : \E root \in 1..n :
       \E under \in Forests((1..n) \ {root}) :
       \E hc \in HasChildrenChoices((root :> under.roots) @@ under.children) :
        /\ wtree = MkTree(root, (root :> under.roots) @@ under.children, hc)
        /\ blocks_stack = <<root>>
        /\ blocks_dict = EmptyDict
        /\ visits = [b \in 1..n |-> 0]
        /\ wresult = <<>>
        /\ wfirst = {}
        /\ wpc = "loop"

\* while blocks_stack: ...
LoopIteration ==
    /\ UNCHANGED <<storeVars, tripVars, snapVars>>
    /\ wpc = "loop" /\ blocks_stack # <<>>
    /\ visits[blocks_stack[Len(blocks_stack)]] < MaxVisits
    /\ LET r == LoopBody(wtree, blocks_stack, blocks_dict)
       IN  /\ blocks_stack' = r.stack
           /\ blocks_dict' = r.dict
           /\ wtree' = r.tree
           /\ visits' = [visits EXCEPT ![r.curr] = @ + 1]
    /\ UNCHANGED <<wresult, wfirst, wpc>>

Return ==
    /\ UNCHANGED <<storeVars, tripVars, snapVars>>
    /\ wpc = "loop" /\ blocks_stack = <<>>
    /\ wresult' = <<ReturnValue(wtree, blocks_dict)>>
    /\ wpc' = "returned"
    /\ UNCHANGED <<wtree, blocks_stack, blocks_dict, visits, wfirst>>

\* generate_course_structure is called again for the same, unchanged course:
\* blocks_stack = [course]; blocks_dict = {}
CallAgain ==
    /\ UNCHANGED <<storeVars, tripVars, snapVars>>
    /\ wpc = "returned" /\ wfirst = {}
    /\ wfirst' = {wresult[1]}
    /\ wresult' = <<>>
    /\ blocks_stack' = <<wtree.root>>
    /\ blocks_dict' = EmptyDict
    /\ visits' = [b \in DOMAIN visits |-> 0]
    /\ wpc' = "loop"
    /\ UNCHANGED wtree

WalkNext == LoopIteration \/ Return \/ CallAgain

(***************************************************************************)
(* THE COURSE STRUCTURE SNAPSHOT                                           *)
(***************************************************************************)
CourseIds == 1..MaxCourses

\* The classes a course key may be of: only the first is a CourseLocator.
KeyClasses == {"CourseLocator", "SlashSeparatedCourseKey"}

CourseKeys == [class : KeyClasses, course : CourseIds]

\* What generate_course_structure may raise (subclasses of Exception).
Exceptions == {"ItemNotFoundError"}

\* The trees a course is published with.
TreeA ==
    MkTree(1, (1 :> <<2, 3>>) @@ (2 :> <<>>) @@ (3 :> <<>>),
              (1 :> TRUE) @@ (2 :> TRUE) @@ (3 :> FALSE))

TreeB ==
    MkTree(1, (1 :> <<3, 2>>) @@ (2 :> <<>>) @@ (3 :> <<>>),
              (1 :> TRUE) @@ (2 :> TRUE) @@ (3 :> FALSE))

SampleTrees == {TreeA, TreeB}

\* json.dumps(structure): the text of the dictionary
JsonDumps(structure) == <<"json", structure>>

\* isinstance(course_key, CourseLocator)
IsInstanceAlways(course_key) == TRUE

IsInstance(course_key) == course_key.class = "CourseLocator"

\* course_id = CourseKeyField(..., unique=True): an INSERT of a course_id
\* the table already holds is refused (IntegrityError)
UniqueNotEnforced(table, course_id) == FALSE

UniqueViolation(table, course_id) == \E r \in table : r.course_id = course_id

\* except Exception as e: logger.error(...); raise
\* what the handler of a failed build leaves the task with
HandlerSwallows(task, e) ==
    [task EXCEPT !.pc = "get", !.structure_json = JsonDumps(None)]

ExceptHandler(task, e) == [task EXCEPT !.pc = "raised", !.raised = e]

SnapIdle ==
    /\ course_tree = [c \in CourseIds |-> TreeA]
    /\ rows = {}
    /\ nextPk = 1
    /\ tasks = <<>>
    /\ log = {}

\* A course is published: the modulestore holds the new tree, the signal is
\* sent and listen_for_course_publish calls update_course_structure.delay.
ListenForCoursePublish(course_key, tree) ==
    /\ UNCHANGED <<storeVars, tripVars, walkVars>>
    /\ Len(tasks) < MaxTasks
    /\ course_tree' = [course_tree EXCEPT ![course_key.course] = tree]
    /\ tasks' = Append(tasks,
         [course_key |-> course_key, pc |-> "start", structure_json |-> None,
          error |-> None, raised |-> None, cs |-> 0, created |-> FALSE,
          integrity_error |-> FALSE])
    /\ UNCHANGED <<rows, nextPk, log>>

\* if not isinstance(course_key, CourseLocator): logger.error(...); return
TypeGuard(t) ==
    /\ UNCHANGED <<storeVars, tripVars, walkVars>>
    /\ t \in DOMAIN tasks /\ tasks[t].pc = "start"
    /\ IF IsInstance(tasks[t].course_key)
       THEN /\ tasks' = [tasks EXCEPT ![t].pc = "generate"]
            /\ UNCHANGED log
       ELSE /\ tasks' = [tasks EXCEPT ![t].pc = "returned"]
            /\ log' = log \cup {[task |-> t,
                                 msg |-> "update_course_structure requires a CourseLocator",
                                 arg |-> tasks[t].course_key.class]}
    /\ UNCHANGED <<course_tree, rows, nextPk>>

\* structure = generate_course_structure(course_key)
\* structure_json = json.dumps(structure)
Generate(t) ==
    /\ UNCHANGED <<storeVars, tripVars, walkVars>>
    /\ t \in DOMAIN tasks /\ tasks[t].pc = "generate"
    /\ tasks' = [tasks EXCEPT ![t].pc = "get",
                   ![t].structure_json =
                       JsonDumps(GenerateCourseStructure(
                                     course_tree[tasks[t].course_key.course]))]
    /\ UNCHANGED <<course_tree, rows, nextPk, log>>

\* generate_course_structure raises e
GenerateRaises(t, e) ==
    /\ UNCHANGED <<storeVars, tripVars, walkVars>>
    /\ t \in DOMAIN tasks /\ tasks[t].pc = "generate"
    /\ tasks' = [tasks EXCEPT ![t] = ExceptHandler([@ EXCEPT !.error = e], e)]
    /\ log' = log \cup {[task |-> t,
                         msg |-> "An error occurred while generating course structure",
                         arg |-> e]}
    /\ UNCHANGED <<course_tree, rows, nextPk>>

\* as if the lookup were not restricted to the course
GetAnyCourse(table, course_key) == table

\* CourseStructure.objects.get(course_id=course_key), the rows it matches
Get(table, course_key) == {r \in table : r.course_id = course_key}

\* get_or_create, the lookup: SELECT ... WHERE course_id = course_key
GetOrCreate_Get(t) ==
    /\ UNCHANGED <<storeVars, tripVars, walkVars>>
    /\ t \in DOMAIN tasks /\ tasks[t].pc = "get"
    /\ IF Get(rows, tasks[t].course_key) # {}
       THEN \E r \in Get(rows, tasks[t].course_key) :
              tasks' = [tasks EXCEPT ![t].pc = "save", ![t].cs = r.pk]
       ELSE tasks' = [tasks EXCEPT ![t].pc = "create"]
    /\ UNCHANGED <<course_tree, rows, nextPk, log>>

\* get_or_create, no row was found: INSERT with the defaults; refused by
\* the unique index when a row has appeared since, and then the row that
\* is there is fetched (created is False)
GetOrCreate_Create(t) ==
    /\ UNCHANGED <<storeVars, tripVars, walkVars>>
    /\ t \in DOMAIN tasks /\ tasks[t].pc = "create"
    /\ IF UniqueViolation(rows, tasks[t].course_key)
       THEN /\ \E r \in Get(rows, tasks[t].course_key) :
                 tasks' = [tasks EXCEPT ![t].pc = "save", ![t].cs = r.pk,
                                        ![t].integrity_error = TRUE]
            /\ UNCHANGED <<rows, nextPk>>
       ELSE /\ rows' = rows \cup {[pk |-> nextPk,
                                   course_id |-> tasks[t].course_key,
                                   structure_json |-> tasks[t].structure_json]}
            /\ nextPk' = nextPk + 1
            /\ tasks' = [tasks EXCEPT ![t].pc = "done", ![t].cs = nextPk,
                                      ![t].created = TRUE]
    /\ UNCHANGED <<course_tree, log>>

\* if not created: cs.structure_json = structure_json; cs.save()
Save(t) ==
    /\ UNCHANGED <<storeVars, tripVars, walkVars>>
    /\ t \in DOMAIN tasks /\ tasks[t].pc = "save"
    /\ rows' = {IF r.pk = tasks[t].cs
                THEN [r EXCEPT !.structure_json = tasks[t].structure_json]
                ELSE r : r \in rows}
    /\ tasks' = [tasks EXCEPT ![t].pc = "done"]
    /\ UNCHANGED <<course_tree, nextPk, log>>

SnapNext ==
    \/ \E k \in CourseKeys, tree \in SampleTrees : ListenForCoursePublish(k, tree)
    \/ \E t \in 1..MaxTasks : TypeGuard(t)
    \/ \E t \in 1..MaxTasks : Generate(t)
    \/ \E t \in 1..MaxTasks, e \in Exceptions : GenerateRaises(t, e)
    \/ \E t \in 1..MaxTasks : GetOrCreate_Get(t)
    \/ \E t \in 1..MaxTasks : GetOrCreate_Create(t)
    \/ \E t \in 1..MaxTasks : Save(t)

(***************************************************************************)
(* SPECIFICATIONS                                                          *)
(***************************************************************************)
\* a test starts: nothing is built, DATA_DIR is on the disk
TripInit ==
    /\ scopes = <<>> /\ exc = FALSE /\ dbs = {} /\ docs = {}
    /\ tmpdirs = {DATA_DIR} /\ done = {} /\ nextId = 1
    /\ course_tree = None /\ rows = {} /\ nextPk = 1 /\ tasks = <<>> /\ log = {}
    /\ wtree = None /\ blocks_stack = <<>> /\ blocks_dict = EmptyDict
    /\ visits = EmptyDict /\ wresult = <<>> /\ wfirst = {} /\ wpc = "idle"
    /\ prog \in Programs
    /\ plan = PlanOf(prog)
    /\ ran = <<>>
    /\ mixed_modulestore = [b \in MixedBuilders |-> <<>>]
    /\ asset = <<>>

TripNext ==
    \/ \E n \in 0..RandMax : TripEnter(n)
    \/ Mkdtemp
    \/ \E ok \in BOOLEAN : Construct(ok)
    \/ \E ok \in BOOLEAN : XmlConstruct(ok)
    \/ \E ok \in BOOLEAN : EnsureIndexes(ok)
    \/ \E ok \in BOOLEAN : MixedCtor(ok)
    \/ \E ok, wrote \in BOOLEAN : Step(ok, wrote)
    \/ \E b \in MixedBuilders : AssetCollectionCall(b)
    \/ TripBodyFinishes
    \/ Propagate
    \/ DropDatabase
    \/ Rmtree
    \/ LeaveScope

Init == StoresIdle /\ TripIdle /\ SnapIdle /\ WalkIdle

Next ==
    \/ \E kind \in Kinds, n \in 0..RandMax : Build(kind, n)
    \/ Mkdtemp
    \/ \E ok \in BOOLEAN : Construct(ok)
    \/ \E ok \in BOOLEAN : EnsureIndexes(ok)
    \/ \E i \in 1..MaxScopes : Write(i)
    \/ BodyFinishes
    \/ BodyRaises
    \/ DropDatabase
    \/ Rmtree
    \/ LeaveScope
    \/ TestEnds

\* the store builders
Spec == Init /\ [][Next]_vars

\* the builders as the tests use them
TripSpec == TripInit /\ [][TripNext]_vars

\* the snapshot tasks
SnapSpec == Init /\ [][SnapNext]_vars

\* generate_course_structure on every course tree of up to MaxBlocks blocks
WalkSpec == WalkInit /\ [][WalkNext]_vars

\* the same, the function being run on: a statement that can run does
WalkFairSpec == WalkInit /\ [][WalkNext]_vars /\ WF_vars(WalkNext)

(***************************************************************************)
(* PROPERTIES                                                              *)
(***************************************************************************)

\* C1: a builder scope whose store was yielded to the body has, once it is
\* left, run its teardown: _drop_database and, for a module store, rmtree
\* of its temp directory (which is gone), whether the body finished or raised.
C1_TeardownAlwaysRuns ==
    \A d \in done :
        d.yielded =>
            /\ d.dropped
            /\ d.kind # "content" => (d.rmtreed /\ d.fs \notin tmpdirs)

\* a module store scope left by an exception and one left normally, both torn down
C1_Witness ==
    \E d1, d2 \in done :
        /\ d1.yielded /\ d1.raised /\ d1.kind # "content"
        /\ d1.dropped /\ d1.rmtreed
        /\ d2.yielded /\ ~d2.raised /\ d2.dropped

\* C2: any two stores that are live at the same time have different
\* database names.
C2_LiveStoresHaveDistinctNames ==
    \A i, j \in DOMAIN scopes :
        (i # j /\ scopes[i].pc = "yielded" /\ scopes[j].pc = "yielded")
            => scopes[i].db # scopes[j].db

\* C3: a _drop_database run by one scope leaves what every other live store
\* reads unchanged.
C3_DropLeavesOtherStoresIntact ==
    [][ IF scopes # <<>> /\ scopes' # <<>> /\ Len(scopes') = Len(scopes)
        THEN (Top.pc = "drop" /\ scopes'[Len(scopes)].dropped)
                => \A i \in 1..(Len(scopes) - 1) :
                      Visible(docs', scopes[i]) = Visible(docs, scopes[i])
        ELSE TRUE ]_vars

\* C4: the store a builder yields holds nothing at the yield.
C4_YieldedStoreIsEmpty ==
    \A i \in DOMAIN scopes : scopes[i].yielded => scopes[i].initial = {}

\* C5: a builder scope whose setup raised after mkdtemp has run its
\* teardown: the temp directory it made is removed.
C5_SetupFailureTearsDown ==
    \A d \in done :
        (~d.yielded /\ d.fs # 0) => (d.rmtreed /\ d.fs \notin tmpdirs)

\* C6: the CourseStructure table never holds two rows of one course_id.
C6_OneRowPerCourse ==
    \A r1, r2 \in rows : r1.course_id = r2.course_id => r1 = r2

\* two tasks of one course ran to the end; the INSERT of one was refused by
\* the unique index
C6_Witness ==
    \E t1, t2 \in DOMAIN tasks :
        /\ t1 # t2
        /\ tasks[t1].course_key = tasks[t2].course_key
        /\ tasks[t1].pc = "done" /\ tasks[t1].created
        /\ tasks[t2].pc = "done" /\ tasks[t2].integrity_error

TasksOf(course_key) == {t \in DOMAIN tasks : tasks[t].course_key = course_key}

\* C7: once the tasks of two publish events of one course are both done,
\* the table holds exactly one row of the course, and it holds the
\* structure_json computed by the second.
C7_SecondCallsData ==
    \A k \in CourseKeys :
        (/\ Cardinality(TasksOf(k)) = 2
         /\ \A t \in TasksOf(k) : tasks[t].pc = "done")
        => LET second == CHOOSE t \in TasksOf(k) : \A u \in TasksOf(k) : u <= t
           IN  /\ Cardinality({r \in rows : r.course_id = k}) = 1
               /\ \A r \in rows :
                     r.course_id = k =>
                        r.structure_json = tasks[second].structure_json

NotACourseLocator(t) == tasks[t].course_key.class # "CourseLocator"

C8_State ==
    /\ \A t \in DOMAIN tasks :
          (NotACourseLocator(t) /\ tasks[t].pc # "start") =>
              /\ tasks[t].pc = "returned"
              /\ tasks[t].structure_json = None /\ tasks[t].error = None
              /\ tasks[t].raised = None
              /\ tasks[t].cs = 0 /\ ~tasks[t].created
              /\ \E l \in log : l.task = t /\ l.arg = tasks[t].course_key.class
    /\ \A r \in rows : r.course_id.class = "CourseLocator"

C8_Step ==
    \A t \in DOMAIN tasks :
        (NotACourseLocator(t) /\ tasks'[t] # tasks[t]) => rows' = rows

\* C8: a task given a course key that is not a CourseLocator logs the error
\* and returns: generate_course_structure is not called, nothing is raised,
\* and no row is created or changed.
C8_TypeGuard == []C8_State /\ [][C8_Step]_vars

\* the guard returned while the table held a row
C8_Witness ==
    \E t \in DOMAIN tasks :
        NotACourseLocator(t) /\ tasks[t].pc = "returned" /\ rows # {}

C9_State ==
    \A t \in DOMAIN tasks :
        tasks[t].error # None =>
            /\ tasks[t].pc = "raised"
            /\ tasks[t].raised = tasks[t].error
            /\ \E l \in log : l.task = t /\ l.arg = tasks[t].error
            /\ tasks[t].cs = 0 /\ ~tasks[t].created

C9_Step ==
    \A t \in DOMAIN tasks :
        /\ (tasks[t].error = None /\ tasks'[t].error # None) => rows' = rows
        /\ tasks[t].error # None => tasks'[t] = tasks[t]

\* C9: when generate_course_structure raises, the task logs the error and
\* raises that same exception, and creates or changes no row, then or later.
C9_BuildFailureReraised == []C9_State /\ [][C9_Step]_vars

\* the build of a task failed while the table held a row of its course
C9_Witness ==
    \E t \in DOMAIN tasks :
        /\ tasks[t].pc = "raised"
        /\ \E r \in rows : r.course_id = tasks[t].course_key

\* C10: no block is popped twice, and the dictionary returned has the
\* usage key of the course as root and one entry per block of the tree,
\* each block popped once, with the usage keys of the block's children in
\* authoring order (none for a block without has_children).
C10_StructureOfTree ==
    /\ wpc # "idle" => \A b \in BlocksOf(wtree) : visits[b] <= 1
    /\ wpc = "returned" =>
          /\ wresult[1].root = Unicode(wtree.root)
          /\ DOMAIN wresult[1].blocks = {Unicode(b) : b \in BlocksOf(wtree)}
          /\ \A b \in BlocksOf(wtree) :
                /\ visits[b] = 1
                /\ wresult[1].blocks[Unicode(b)].usage_key = Unicode(b)
                /\ Len(wresult[1].blocks[Unicode(b)].children) =
                      IF wtree.has_children[b] THEN Len(wtree.children[b]) ELSE 0
                /\ \A i \in 1..Len(wresult[1].blocks[Unicode(b)].children) :
                      wresult[1].blocks[Unicode(b)].children[i] =
                          Unicode(wtree.children[b][i])

\* a returned walk of a tree with a block of two children, a grandchild of
\* the root and a leaf without has_children
C10_Witness ==
    /\ wpc = "returned"
    /\ \E b \in BlocksOf(wtree) : Len(wtree.children[b]) >= 2
    /\ \E b \in BlocksOf(wtree) :
          b # wtree.root /\ Len(wtree.children[b]) >= 1
    /\ \E b \in BlocksOf(wtree) : ~wtree.has_children[b]

\* C11: a second call of generate_course_structure on the unchanged course
\* returns what the first call returned: the same root and the same
\* mapping, with the same children lists in the same order.
C11_SecondCallSameOutput ==
    (wpc = "returned" /\ wfirst # {}) => wfirst = {wresult[1]}

\* both calls returned, on a course of at least three blocks with a block
\* of two children
C11_Witness ==
    /\ wpc = "returned" /\ wfirst = {wresult[1]}
    /\ \E b \in BlocksOf(wtree) : Len(wtree.children[b]) >= 2

\* C16: once every update_course_structure task scheduled by the publish
\* events of a course has completed, whatever the interleaving of the
\* tasks' build and write steps, the row of the course holds the snapshot
\* of the course tree as of the most recent publish.
C16_RowIsLatestPublish ==
    \A k \in CourseKeys :
        (/\ k.class = "CourseLocator"
         /\ TasksOf(k) # {}
         /\ \A t \in DOMAIN tasks :
               tasks[t].course_key.course = k.course =>
                   /\ tasks[t].course_key = k
                   /\ tasks[t].pc = "done"
                   /\ tasks[t].raised = None)
        => \E r \in rows :
              /\ r.course_id = k
              /\ r.structure_json =
                    JsonDumps(GenerateCourseStructure(course_tree[k.course]))

C19_Step ==
    \A t \in DOMAIN tasks :
        tasks'[t] # tasks[t] =>
            /\ \A r \in rows : r.course_id # tasks[t].course_key => r \in rows'
            /\ \A r \in rows' :
                  r.course_id # tasks[t].course_key => r \in rows
            /\ \A u \in DOMAIN tasks : u # t => tasks'[u] = tasks[u]
            /\ course_tree' = course_tree

\* C19: a step of update_course_structure for one course creates or
\* modifies only the row of that course: every row of another course_id is
\* left as it was, no such row appears or goes, and no other task's data
\* nor any course's tree is touched.
C19_OtherCoursesUntouched == [][C19_Step]_vars

\* the tasks of two different courses both ran to the end, the later one
\* with the other course's row already in the table
C19_Witness ==
    \E t1, t2 \in DOMAIN tasks :
        /\ tasks[t1].course_key # tasks[t2].course_key
        /\ tasks[t1].pc = "done" /\ tasks[t2].pc = "done"
        /\ tasks[t1].cs < tasks[t2].cs
        /\ \E r1, r2 \in rows :
              /\ r1.pk = tasks[t1].cs /\ r1.course_id = tasks[t1].course_key
              /\ r2.pk = tasks[t2].cs /\ r2.course_id = tasks[t2].course_key

RemoveAt(s, i) == SubSeq(s, 1, i - 1) \o SubSeq(s, i + 1, Len(s))

C17_Entry(tree, b) ==
    [usage_key    |-> Unicode(b),
     block_type   |-> Category(tree, b),
     display_name |-> DisplayName(b),
     graded       |-> FALSE,
     format       |-> None,
     children     |-> MapSeq(IF tree.has_children[b]
                             THEN GetChildren(tree, b) ELSE <<>>)]

\* the mappings built by the walks that take any block of the worklist next
RECURSIVE C17_AnyOrder(_, _, _)
C17_AnyOrder(tree, work, dict) ==
    IF work = <<>>
    THEN {dict}
    ELSE UNION {C17_AnyOrder(tree,
                             RemoveAt(work, i) \o
                                 (IF tree.has_children[work[i]]
                                  THEN GetChildren(tree, work[i]) ELSE <<>>),
                             DictSet(dict, Unicode(work[i]),
                                     C17_Entry(tree, work[i])))
                : i \in DOMAIN work}

\* C17: for every course tree, the last-in-first-out walk returns the root
\* and the blocks mapping that a walk taking the blocks of the worklist in
\* any other order builds.
C17_VisitOrderIrrelevant ==
    wpc = "returned" =>
        /\ wresult[1].root = Unicode(wtree.root)
        /\ C17_AnyOrder(wtree, <<wtree.root>>, EmptyDict) = {wresult[1].blocks}

\* the walk returned on a tree where the worklist held several blocks at
\* once: the root has two children and one of them has a child
C17_Witness ==
    /\ wpc = "returned"
    /\ Len(wtree.children[wtree.root]) >= 2
    /\ \E b \in BlocksOf(wtree) : b # wtree.root /\ wtree.children[b] # <<>>

\* C18: on every finite course tree (acyclic, connected from one root) a
\* call of generate_course_structure that is being run comes to its end:
\* the block stack becomes empty and the function returns.
C18_WalkTerminates ==
    (wpc = "loop") ~> (wpc = "returned" /\ blocks_stack = <<>>)

\* the function returned on a tree of at least three blocks, each of them
\* popped exactly once
C18_Witness ==
    /\ wpc = "returned" /\ blocks_stack = <<>>
    /\ Len(visits) >= 3
    /\ \A b \in DOMAIN visits : visits[b] = 1

\* C12: asset_collection of a Mixed builder returns a collection only when
\* exactly one backend is configured, and then that backend's handle: the
\* asset_collection of a store that has one (asset_metadata of the Mongo
\* store's database), otherwise the structures collection of the store's
\* database; with more than one backend it returns None.
C12_AssetCollection ==
    asset # <<>> =>
        LET a == asset[1]
            configured == StoreBuilders(a.builder)
        IN  /\ Len(a.all_stores) = Len(configured)
            /\ Len(configured) > 1 => a.value = NoCollection
            /\ a.value # NoCollection => Len(configured) = 1
            /\ Len(configured) = 1 =>
                  /\ a.all_stores[1].kind = configured[1][2]
                  /\ a.value[1] = a.all_stores[1].db
                  /\ configured[1][2] = "mongo" => a.value[2] = "asset_metadata"
                  /\ configured[1][2] = "split" => a.value[2] = "structures"

\* asset_collection() was called on the builder of two backends, inside
\* its with statement
C12_Witness ==
    /\ asset # <<>> /\ asset[1].builder = "mixed_both"
    /\ scopes # <<>> /\ Top.kind = "mixed"

\* every builder scope so far, left or not
AllScopes == {Summary(scopes[i]) : i \in DOMAIN scopes} \cup done

C13_State ==
    prog.test = "build" =>
        \* one content store, made before any module store: by build when
        \* none was supplied, by the caller (and none by build) otherwise
        /\ \A s \in AllScopes : s.kind = "content" <=> s.id = 1
        \* no content store supplied: when the teardown of the content
        \* store starts, every module store has been torn down and left
        /\ (/\ ~prog.contentstore
            /\ scopes # <<>>
            /\ scopes[1].pc \in {"drop", "exit"})
           => /\ scopes[1].kind = "content" /\ Len(scopes) = 1
              /\ \A id \in 2..(nextId - 1) :
                   \E d \in done :
                      /\ d.id = id
                      /\ (d.kind \in {"mongo", "split"} /\ d.yielded)
                         => (d.dropped /\ d.rmtreed)

C13_Step ==
    (/\ prog.test = "build" /\ prog.contentstore
     /\ Len(scopes) >= 2)
    => \* a content store was supplied: no step of what build entered
       \* touches it, and it is live when the last of them has left
       /\ scopes'[1] = scopes[1]
       /\ scopes[1].kind = "content" /\ scopes[1].pc = "yielded"
       /\ ~scopes[1].dropped
       /\ scopes[1].db \in dbs'
       /\ {d \in docs' : d.db = scopes[1].db} = {d \in docs : d.db = scopes[1].db}

\* C13: build called with no content store makes a content store first,
\* then the module store, and on exit tears the module store down before
\* that content store; build called with a content store makes none and
\* tears none down: the one supplied is live when build's scope is left.
C13_BuildAndContentstore == []C13_State /\ [][C13_Step]_vars

\* build() without a content store has ended: the Mongo module store was
\* dropped and its directory removed, and now the content store is dropped
C13_Witness ==
    /\ prog.test = "build" /\ ~prog.contentstore
    /\ Len(scopes) = 1 /\ scopes[1].kind = "content" /\ scopes[1].dropped
    /\ \E d \in done : d.kind = "mongo" /\ d.yielded /\ d.dropped /\ d.rmtreed

C15_State ==
    /\ DATA_DIR \in tmpdirs
    /\ \A s \in AllScopes : s.kind = "xml" => (~s.dropped /\ ~s.rmtreed)

C15_Step ==
    (scopes # <<>> /\ Top.kind = "xml")
    => /\ dbs' = dbs /\ docs' = docs /\ tmpdirs' = tmpdirs
       /\ \A i \in 1..(Len(scopes) - 1) : scopes'[i] = scopes[i]

\* C15: XmlModulestoreBuilder.build_with_contentstore, entered and left
\* normally or by an exception, runs no teardown: DATA_DIR stays on the
\* disk, and no database, document, directory or enclosing store (the
\* content store supplied) is changed by a step of the builder.
C15_XmlLeavesSourceAlone == []C15_State /\ [][C15_Step]_vars

\* the XML builder was left by an exception raised in the body; the content
\* store it was given is still live
C15_Witness ==
    /\ \E d \in done : d.kind = "xml" /\ d.yielded /\ d.raised
    /\ scopes # <<>> /\ Top.kind = "content" /\ Top.pc = "yielded"
    /\ Top.db \in dbs

\* the import, the export or the second import has failed
C20_StepFailed ==
    /\ prog.test = "test_round_trip"
    /\ ran # <<>> /\ ~ran[Len(ran)].ok /\ Len(ran) <= 3

C20_State ==
    prog.test = "test_round_trip" =>
        \* the steps run in the order of the pipeline, each at most once,
        \* and none after a step that failed
        /\ Len(ran) <= Len(Pipeline)
        /\ \A i \in DOMAIN ran :
              i <= Len(Pipeline) => ran[i].name = Pipeline[i]
        /\ \A i \in 1..(Len(ran) - 1) : ran[i].ok
        /\ C20_StepFailed => exc
        \* when the failure has left the outermost with statement, the two
        \* content stores and the two module stores are dropped, and the
        \* module stores' directories removed
        /\ (C20_StepFailed /\ scopes = <<>>) =>
              /\ Cardinality({d \in done : d.kind = "content"}) = 2
              /\ Cardinality({d \in done : d.kind \in {"mongo", "split"}}) = 2
              /\ \A d \in done :
                    d.kind \in Kinds =>
                       /\ d.yielded /\ d.raised /\ d.dropped
                       /\ d.kind # "content" => d.rmtreed
              /\ dbs = {} /\ docs = {} /\ tmpdirs = {DATA_DIR}

\* innermost first: a store is dropped when it is the innermost one left,
\* every store acquired after it having been torn down and left
C20_Step ==
    C20_StepFailed =>
        \A i \in DOMAIN scopes :
            (i \in DOMAIN scopes' /\ scopes'[i].dropped /\ ~scopes[i].dropped)
            => /\ i = Len(scopes)
               /\ \A id \in (scopes[i].id + 1)..(nextId - 1) :
                     \E d \in done :
                        /\ d.id = id
                        /\ d.kind \in Kinds =>
                              /\ d.dropped
                              /\ d.kind # "content" => d.rmtreed

\* C20: in test_round_trip a failure of the first import, the export or the
\* second import ends the attempt: the failed step is the last one run (no
\* later step, no comparison, no second try), the exception propagates,
\* and the destination store, the destination content store, the source
\* store and the source content store are torn down, in that order.
C20_FailureIsFatal == []C20_State /\ [][C20_Step]_vars

\* the export failed and the exception has left the four with statements
C20_Witness ==
    /\ prog.test = "test_round_trip"
    /\ Len(ran) = 2 /\ ran[1].ok /\ ~ran[2].ok
    /\ scopes = <<>> /\ exc
    /\ \E d \in done : d.kind = "mixed"

\* a with statement over build of a Mixed builder
C21_MixedBuild == prog.test = "build" /\ prog.source_builder \in MixedBuilders

\* the backends of the Mixed builder entered so far, left or not, by id:
\* the content store has id 1, the i-th backend entered has id i + 1
C21_Backends == {s \in AllScopes : s.kind \in {"mongo", "split"}}

C21_State ==
    C21_MixedBuild =>
        LET configured == StoreBuilders(prog.source_builder)
            built == mixed_modulestore[prog.source_builder]
        IN  \* acquired in the order of store_builders
            /\ \A s \in C21_Backends :
                  /\ s.id - 1 \in 1..Len(configured)
                  /\ s.kind = configured[s.id - 1][2]
            \* the i-th name goes with the i-th backend built
            /\ built # <<>> =>
                  /\ Len(built) = Len(configured)
                  /\ \A i \in 1..Len(built) :
                        /\ built[i].name = configured[i][1]
                        /\ built[i].kind = configured[i][2]
                        /\ built[i].id = i + 1
            \* when the scope has been left, by the end of the body, by an
            \* exception of the body or by a failure to acquire a later
            \* backend, every backend that was acquired has been torn down
            /\ (Len(scopes) <= 1 /\ (plan = <<>> \/ exc))
               => \A s \in C21_Backends :
                     s.yielded => (s \in done /\ s.dropped /\ s.rmtreed)

\* teardown in reverse order of acquisition: a backend is dropped only when
\* every backend acquired after it has been dropped, removed and left
C21_Step ==
    C21_MixedBuild =>
        \A i \in DOMAIN scopes :
            (/\ scopes[i].kind \in {"mongo", "split"}
             /\ i \in DOMAIN scopes'
             /\ scopes'[i].dropped /\ ~scopes[i].dropped)
            => \A s \in C21_Backends :
                  (s.id > scopes[i].id /\ s.yielded)
                  => (s \in done /\ s.dropped /\ s.rmtreed)

\* C21: MixedModulestoreBuilder.build_with_contentstore acquires its
\* backends in the order of store_builders, gives the i-th name the i-th
\* backend built, and on exit tears down every backend it acquired, last
\* acquired first, also when the body raises and when acquiring a later
\* backend fails.
C21_MixedOrder == []C21_State /\ [][C21_Step]_vars

\* the builder of two backends: the second backend failed to come up
\* after the first was acquired, and the first has been torn down
C21_Witness ==
    /\ C21_MixedBuild /\ prog.source_builder = "mixed_both"
    /\ \E d \in done : d.kind = "split" /\ ~d.yielded
    /\ \E d \in done : d.kind = "mongo" /\ d.yielded /\ d.dropped /\ d.rmtreed

====
